---------------------------- MODULE Spec2Model ----------------------------
(***************************************************************************)
(* A model of the Conan recipe conanfile.py (class ShinyConan).            *)
(*                                                                         *)
(* The recipe is a set of callbacks that the package manager invokes in a  *)
(* fixed order: requirements(), source(), build(), package(),              *)
(* package_info().  Each callback is one action.  The external tools the   *)
(* callbacks shell out to (conan remote add, git clone, MSBuild) are the   *)
(* environment: their exit status and the files they produce are chosen    *)
(* nondeterministically from small sets.                                   *)
(*                                                                         *)
(* File names and paths are sequences of one-character strings, so that    *)
(* glob matching, basename and relative-path computation are computed and  *)
(* not assumed.                                                            *)
(***************************************************************************)
EXTENDS Naturals, Sequences, FiniteSets

VARIABLES
    settings,        \* self.settings (line 10); never read by the recipe itself
    options,         \* self.options  (lines 11-12)
    pc,              \* which callback the package manager invokes next
    failedStep,      \* the callback whose exception ended the invocation
    remotes,         \* the package manager's registry of remotes (channels)
    requires,        \* self.requires: the declared dependencies
    reqRuns,         \* completed runs of requirements()
    callResult,      \* outcome of the last call(...) of line 16
    firstRun,        \* history: remotes, requires and exit status as the first
                     \* completed run of requirements() left them
    sourceExit,      \* <<exit status>> of the clone command, <<>> before it ran
    buildExit,       \* <<exit status>> of the MSBuild command, <<>> before it ran
    attempts,        \* how many times each of source/build/package was started
    files,           \* the build tree: paths relative to the build folder
    copied,          \* copy operations done by package(): [rule, from, to]
    package,         \* the package output tree: paths relative to its root
    libs,            \* self.cpp_info.libs
    log              \* the recipe's calls into its collaborators, in order

vars == <<settings, options, pc, failedStep, remotes, requires, reqRuns,
          callResult, firstRun, sourceExit, buildExit,
          attempts, files, copied, package, libs, log>>

---------------------------------------------------------------------------
(* Bounds *)

\* requirements() is run at most this many times in one behaviour
MaxRuns == 2

\* the build produces at most this many of the candidate output files
MaxBuildOutputs == 2

---------------------------------------------------------------------------
(* Strings as character sequences *)

SEP == <<"/">>

HELLO == <<"h","e","l","l","o">>

INCLUDE == <<"i","n","c","l","u","d","e">>

LIB == <<"l","i","b">>

BIN == <<"b","i","n">>

DOT_H == <<".","h">>

DOT_LIB == <<".","l","i","b">>

DOT_DLL == <<".","d","l","l">>

DOT_SO == <<".","s","o">>

DOT_DYLIB == <<".","d","y","l","i","b">>

DOT_A == <<".","a">>

DOT_EXE == <<".","e","x","e">>

STAR == <<"*">>

\* the five patterns and the link name of the recipe, as character sequences
PatHeaders == STAR \o DOT_H

PatStaticLib == STAR \o HELLO \o DOT_LIB

PatDll == STAR \o DOT_DLL

PatSo == STAR \o DOT_SO

PatDylib == STAR \o DOT_DYLIB

PatA == STAR \o DOT_A

---------------------------------------------------------------------------
(* Path and glob helpers: what self.copy computes for each file *)

\* fnmatch: "*" matches any run of characters (the separator included),
\* every other character of these patterns matches itself
RECURSIVE FnMatch(_, _)
FnMatch(name, pat) ==
    IF pat = <<>> THEN name = <<>>
    ELSE IF Head(pat) = "*"
         THEN FnMatch(name, Tail(pat))
              \/ (name # <<>> /\ FnMatch(Tail(name), pat))
         ELSE name # <<>> /\ Head(name) = Head(pat)
              /\ FnMatch(Tail(name), Tail(pat))

StartsWith(s, pre) ==
    Len(s) >= Len(pre) /\ SubSeq(s, 1, Len(pre)) = pre

EndsWith(s, suf) ==
    Len(s) >= Len(suf) /\ SubSeq(s, Len(s) - Len(suf) + 1, Len(s)) = suf

\* os.path.basename: what follows the last separator
RECURSIVE Basename(_)
Basename(p) ==
    IF \E i \in 1..Len(p) : p[i] = "/"
    THEN Basename(Tail(p))
    ELSE p

\* the top directory of a path ("" for a file at the root)
TopDir(p) ==
    IF \E i \in 1..Len(p) : p[i] = "/"
    THEN SubSeq(p, 1, (CHOOSE i \in 1..Len(p) :
                          p[i] = "/" /\ \A j \in 1..(i-1) : p[j] # "/") - 1)
    ELSE <<>>

\* whether path p lies in the sub-directory src of the tree (src = "" is the root)
IsUnder(p, src) ==
    src = <<>> \/ StartsWith(p, src \o SEP)

\* os.path.relpath(p, src) for a p that lies under src
RelPath(p, src) ==
    IF src = <<>> THEN p ELSE SubSeq(p, Len(src) + 2, Len(p))

\* os.path.join(dst, name)
Join(dst, name) == dst \o SEP \o name

---------------------------------------------------------------------------
(* The files the external tools can produce *)

\* candidate contents of the cloned repository
RepoFiles ==
    { HELLO \o SEP \o <<"a">> \o DOT_H,                   \* hello/a.h
      HELLO \o SEP \o <<"s">> \o SEP \o <<"a">> \o DOT_H, \* hello/s/a.h
      <<"c">> \o SEP \o <<"b">> \o DOT_H }                \* c/b.h

\* candidate outputs of the build
BuildOutputs ==
    { <<"d">> \o SEP \o HELLO \o DOT_LIB,                 \* d/hello.lib
      <<"r">> \o SEP \o HELLO \o DOT_LIB,                 \* r/hello.lib
      <<"r">> \o SEP \o <<"x">> \o HELLO \o DOT_LIB,      \* r/xhello.lib
      <<"r">> \o SEP \o <<"s">> \o DOT_LIB,               \* r/s.lib
      <<"r">> \o SEP \o <<"s">> \o DOT_DLL,               \* r/s.dll
      <<"s">> \o DOT_SO,                                  \* s.so
      <<"s">> \o DOT_DYLIB,                               \* s.dylib
      <<"r">> \o SEP \o <<"s">> \o DOT_A,                 \* r/s.a
      <<"r">> \o SEP \o <<"s">> \o DOT_EXE }              \* r/s.exe

\* exit statuses a child process can end with
ExitCodes == {0, 1}

---------------------------------------------------------------------------
(* The recipe's configuration values *)

\* line 16: the command string given to subprocess.call
RemoteAddCommand ==
    "conan remote add --force bincrafters https://api.bintray.com/conan/bincrafters/public-conan"

\* line 16: the remote name argument of the command
RemoteName == "bincrafters"

\* line 16: the URL argument of the command
RemoteUrl == "https://api.bintray.com/conan/bincrafters/public-conan"

\* a variant of RemoteAddForce: the command is written without --force
RemoteAddForceMissing == FALSE

\* line 16: whether the command carries --force
RemoteAddForce == TRUE

\* a variant of RequirementRefs: the SDK dependency is declared only for shared builds
RequirementRefsOptional ==
    << [name |-> "conan-glfw", version |-> "3.2.1", channel |-> "bincrafters/stable"],
       [name |-> "conan-glm", version |-> "0.9.8.5", channel |-> "bincrafters/stable"] >>
    \o (IF options.shared
        THEN << [name |-> "vulkan-sdk", version |-> "1.0.46.0",
                 channel |-> "alaingalvan/stable"] >>
        ELSE << >>)

\* lines 17-19: the references given to self.requires, in order
RequirementRefs ==
    << [name |-> "conan-glfw", version |-> "3.2.1", channel |-> "bincrafters/stable"],
       [name |-> "conan-glm", version |-> "0.9.8.5", channel |-> "bincrafters/stable"],
       [name |-> "vulkan-sdk", version |-> "1.0.46.0", channel |-> "alaingalvan/stable"] >>

\* line 22: the command string given to self.run
CloneCommand == "git clone https://github.com/wagk/shiny.git ."

\* line 26: the solution file given to MSBuild.build
SolutionFile == "shiny.sln"

\* a variant of CopyRules: the dll rule puts its files in lib
CopyRulesDllToLib ==
    << [pattern |-> PatHeaders,   dst |-> INCLUDE, src |-> HELLO, keep_path |-> TRUE],
       [pattern |-> PatStaticLib, dst |-> LIB,     src |-> <<>>,  keep_path |-> FALSE],
       [pattern |-> PatDll,       dst |-> LIB,     src |-> <<>>,  keep_path |-> FALSE],
       [pattern |-> PatSo,        dst |-> LIB,     src |-> <<>>,  keep_path |-> FALSE],
       [pattern |-> PatDylib,     dst |-> LIB,     src |-> <<>>,  keep_path |-> FALSE],
       [pattern |-> PatA,         dst |-> LIB,     src |-> <<>>,  keep_path |-> FALSE] >>

\* a variant of CopyRules: the static-library rule keeps the source path
CopyRulesKeepLibPath ==
    << [pattern |-> PatHeaders,   dst |-> INCLUDE, src |-> HELLO, keep_path |-> TRUE],
       [pattern |-> PatStaticLib, dst |-> LIB,     src |-> <<>>,  keep_path |-> TRUE],
       [pattern |-> PatDll,       dst |-> BIN,     src |-> <<>>,  keep_path |-> FALSE],
       [pattern |-> PatSo,        dst |-> LIB,     src |-> <<>>,  keep_path |-> FALSE],
       [pattern |-> PatDylib,     dst |-> LIB,     src |-> <<>>,  keep_path |-> FALSE],
       [pattern |-> PatA,         dst |-> LIB,     src |-> <<>>,  keep_path |-> FALSE] >>

\* a variant of CopyRules: a shared build packages the import library *.lib
\* instead of *hello.lib
CopyRulesByShared ==
    << [pattern |-> PatHeaders,   dst |-> INCLUDE, src |-> HELLO, keep_path |-> TRUE],
       [pattern |-> IF options.shared THEN STAR \o DOT_LIB ELSE PatStaticLib,
                                  dst |-> LIB,     src |-> <<>>,  keep_path |-> FALSE],
       [pattern |-> PatDll,       dst |-> BIN,     src |-> <<>>,  keep_path |-> FALSE],
       [pattern |-> PatSo,        dst |-> LIB,     src |-> <<>>,  keep_path |-> FALSE],
       [pattern |-> PatDylib,     dst |-> LIB,     src |-> <<>>,  keep_path |-> FALSE],
       [pattern |-> PatA,         dst |-> LIB,     src |-> <<>>,  keep_path |-> FALSE] >>

\* lines 34-39: the six self.copy calls of package(), in order; src defaults
\* to the root of the tree and keep_path to True
CopyRules ==
    << [pattern |-> PatHeaders,   dst |-> INCLUDE, src |-> HELLO, keep_path |-> TRUE],
       [pattern |-> PatStaticLib, dst |-> LIB,     src |-> <<>>,  keep_path |-> FALSE],
       [pattern |-> PatDll,       dst |-> BIN,     src |-> <<>>,  keep_path |-> FALSE],
       [pattern |-> PatSo,        dst |-> LIB,     src |-> <<>>,  keep_path |-> FALSE],
       [pattern |-> PatDylib,     dst |-> LIB,     src |-> <<>>,  keep_path |-> FALSE],
       [pattern |-> PatA,         dst |-> LIB,     src |-> <<>>,  keep_path |-> FALSE] >>

\* a variant of LinkLibs: the link target is named after the package
LinkLibsShiny == << <<"s","h","i","n","y">> >>

\* line 42: the value assigned to self.cpp_info.libs
LinkLibs == << HELLO >>

---------------------------------------------------------------------------
(* The collaborators' contracts the recipe relies on *)

\* conan remote add [--force] name url, on registry reg (a set of
\* [name, url] entries).  Without --force a name or URL already present is
\* an error and the registry is left alone; with --force the entries with
\* that name or that URL are replaced by the new one.
RemoteAdd(reg, name, url, force) ==
    LET clash == {r \in reg : r.name = name \/ r.url = url}
    IN  IF clash # {} /\ ~force
        THEN [exit |-> 1, why |-> "exists", remotes |-> reg]
        ELSE [exit |-> 0, why |-> "ok",
              remotes |-> (reg \ clash) \cup {[name |-> name, url |-> url]}]

\* a variant of CallRaises: the status is checked, as subprocess.check_call does
CallRaisesChecked(status) == status # 0

\* line 16: subprocess.call returns the exit status, which the recipe drops
CallRaises(status) == FALSE

\* a variant of RunRaises: the status is dropped, as subprocess.call does
RunRaisesNever(status) == FALSE

\* line 22: self.run raises when the command ends with a non-zero status
RunRaises(status) == status # 0

\* a variant of BuildRaises: a failed build is not reported
BuildRaisesNever(status) == FALSE

\* line 26: MSBuild.build runs the build command through self.run
BuildRaises(status) == status # 0

\* a variant of CopyRaises: a pattern that selects nothing is an error
CopyRaisesOnNoMatch(matched) == matched = {}

\* lines 34-39: self.copy returns the list of copied files, empty when the
\* pattern selects nothing; the recipe drops it
CopyRaises(matched) == FALSE

\* the files of tree that one self.copy call selects
Matched(tree, rule) ==
    {f \in tree : IsUnder(f, rule.src)
                  /\ FnMatch(RelPath(f, rule.src), rule.pattern)}

\* where one self.copy call puts the selected file f
Destination(rule, f) ==
    Join(rule.dst, IF rule.keep_path
                   THEN RelPath(f, rule.src)
                   ELSE Basename(RelPath(f, rule.src)))

\* the copy operations of the first n rules on tree
Copies(tree, rules, n) ==
    UNION { { [rule |-> i, from |-> f, to |-> Destination(rules[i], f)]
              : f \in Matched(tree, rules[i]) } : i \in 1..n }

---------------------------------------------------------------------------
(* Initial state: a freshly constructed recipe object *)

\* registries the package manager can hold before the recipe runs
InitialRegistries ==
    { {[name |-> "conan-center", url |-> "https://conan.bintray.com"]},
      {[name |-> "conan-center", url |-> "https://conan.bintray.com"],
       [name |-> RemoteName, url |-> "https://old.example/bincrafters"],
       [name |-> "mirror", url |-> RemoteUrl]} }

Init ==
    /\ settings \in [os : {"Windows", "Linux"}]
    /\ options \in [shared : BOOLEAN]
    /\ pc = "requirements"
    /\ failedStep = "none"
    /\ remotes \in InitialRegistries
    /\ requires = {}
    /\ reqRuns = 0
    /\ callResult = [exit |-> <<>>, why |-> "none"]
    /\ firstRun = <<>>
    /\ sourceExit = <<>>
    /\ buildExit = <<>>
    /\ attempts = [source |-> 0, build |-> 0, package |-> 0]
    /\ files = {}
    /\ copied = {}
    /\ package = {}
    /\ libs = <<>>
    /\ log = <<>>

---------------------------------------------------------------------------
(* The callbacks *)

\* lines 15-19.  The environment decides whether the child process can be
\* started at all ("oserror": call itself raises), whether the registry can
\* be written ("env": the command ends with status 1) or the command does
\* its work ("ran").
Requirements ==
    /\ pc \in {"requirements", "source"}
    /\ reqRuns < MaxRuns
    /\ \E outcome \in {"oserror", "env", "ran"} :
         LET res == IF outcome = "ran"
                    THEN RemoteAdd(remotes, RemoteName, RemoteUrl, RemoteAddForce)
                    ELSE [exit |-> 1, why |-> "env", remotes |-> remotes]
             raised == outcome = "oserror" \/ CallRaises(res.exit)
             refs == RequirementRefs
             declared == requires \cup {refs[i] : i \in 1..Len(refs)}
         IN  /\ remotes' = IF outcome = "oserror" THEN remotes ELSE res.remotes
             /\ callResult' = IF outcome = "oserror"
                              THEN [exit |-> <<>>, why |-> "oserror"]
                              ELSE [exit |-> <<res.exit>>, why |-> res.why]
             /\ IF raised
                THEN /\ log' = Append(log, [op |-> "call", arg |-> RemoteAddCommand])
                     /\ pc' = "failed"
                     /\ failedStep' = "requirements"
                     /\ UNCHANGED <<requires, reqRuns, firstRun>>
                ELSE /\ log' = Append(log, [op |-> "call", arg |-> RemoteAddCommand])
                               \o [i \in 1..Len(refs) |->
                                     [op |-> "requires", arg |-> refs[i]]]
                     /\ requires' = declared
                     /\ reqRuns' = reqRuns + 1
                     /\ firstRun' = IF reqRuns = 0
                                    THEN << [remotes |-> res.remotes,
                                             requires |-> declared,
                                             exit |-> res.exit] >>
                                    ELSE firstRun
                     /\ pc' = "source"
                     /\ UNCHANGED failedStep
    /\ UNCHANGED <<settings, options, sourceExit, buildExit, attempts, files,
                   copied, package, libs>>

\* lines 21-22.  The clone ends with some exit status; when it succeeds the
\* build tree holds the repository's files.
Source ==
    /\ pc = "source"
    /\ \E status \in ExitCodes, tree \in SUBSET RepoFiles :
         /\ status # 0 => tree = {}
         /\ sourceExit' = <<status>>
         /\ files' = files \cup tree
         /\ IF RunRaises(status)
            THEN pc' = "failed" /\ failedStep' = "source"
            ELSE pc' = "build" /\ UNCHANGED failedStep
    /\ attempts' = [attempts EXCEPT !.source = @ + 1]
    /\ log' = Append(log, [op |-> "run", arg |-> CloneCommand])
    /\ UNCHANGED <<settings, options, remotes, requires, reqRuns, callResult,
                   firstRun, buildExit, copied, package, libs>>

\* lines 24-26.  The build ends with some exit status; when it succeeds it
\* has left some of its outputs in the build tree.
Build ==
    /\ pc = "build"
    /\ \E status \in ExitCodes, outs \in SUBSET BuildOutputs :
         /\ Cardinality(outs) <= MaxBuildOutputs
         /\ status # 0 => outs = {}
         /\ buildExit' = <<status>>
         /\ files' = files \cup outs
         /\ IF BuildRaises(status)
            THEN pc' = "failed" /\ failedStep' = "build"
            ELSE pc' = "package" /\ UNCHANGED failedStep
    /\ attempts' = [attempts EXCEPT !.build = @ + 1]
    /\ log' = Append(log, [op |-> "msbuild", arg |-> SolutionFile])
    /\ UNCHANGED <<settings, options, remotes, requires, reqRuns, callResult,
                   firstRun, sourceExit, copied, package, libs>>

\* lines 33-39.  The six copy calls run in order; a call that raises ends
\* the callback after the calls before it have copied their files.
Package ==
    /\ pc = "package"
    /\ LET rules == CopyRules
           raising == {i \in 1..Len(rules) : CopyRaises(Matched(files, rules[i]))}
           done == IF raising = {}
                   THEN Len(rules)
                   ELSE (CHOOSE i \in raising : \A j \in raising : i <= j) - 1
           issued == IF raising = {} THEN Len(rules) ELSE done + 1
       IN  /\ copied' = Copies(files, rules, done)
           /\ package' = {c.to : c \in copied'}
           /\ log' = log \o [i \in 1..issued |-> [op |-> "copy", arg |-> rules[i]]]
           /\ IF raising = {}
              THEN pc' = "package_info" /\ UNCHANGED failedStep
              ELSE pc' = "failed" /\ failedStep' = "package"
    /\ attempts' = [attempts EXCEPT !.package = @ + 1]
    /\ UNCHANGED <<settings, options, remotes, requires, reqRuns, callResult,
                   firstRun, sourceExit, buildExit, files, libs>>

\* lines 41-42
PackageInfo ==
    /\ pc = "package_info"
    /\ libs' = LinkLibs
    /\ log' = Append(log, [op |-> "libs", arg |-> LinkLibs])
    /\ pc' = "done"
    /\ UNCHANGED <<settings, options, failedStep, remotes, requires, reqRuns,
                   callResult, firstRun, sourceExit, buildExit, attempts, files,
                   copied, package>>

Next == Requirements \/ Source \/ Build \/ Package \/ PackageInfo

Spec == Init /\ [][Next]_vars

---------------------------------------------------------------------------
(* Vocabulary of the properties *)

\* an exit status that was recorded and is not zero
NonZero(e) == e # <<>> /\ e[1] # 0

\* an exit status that was recorded and is zero
Zero(e) == e # <<>> /\ e[1] = 0

\* package() has run to its end
Packaged == pc \in {"package_info", "done"}

GlfwRef == [name |-> "conan-glfw", version |-> "3.2.1", channel |-> "bincrafters/stable"]

GlmRef == [name |-> "conan-glm", version |-> "0.9.8.5", channel |-> "bincrafters/stable"]

VulkanRef == [name |-> "vulkan-sdk", version |-> "1.0.46.0", channel |-> "alaingalvan/stable"]

---------------------------------------------------------------------------
(* C1 *)

\* C1: once requirements() has completed, the declared dependencies are
\* exactly conan-glfw 3.2.1 (bincrafters/stable), conan-glm 0.9.8.5
\* (bincrafters/stable) and vulkan-sdk 1.0.46.0 (alaingalvan/stable),
\* whatever the settings and the shared option are; before that none is declared.
C1_ThreeDependencies ==
    /\ reqRuns >= 1 => requires = {GlfwRef, GlmRef, VulkanRef}
    /\ reqRuns = 0 => requires = {}

C1_Witness ==
    /\ reqRuns >= 1
    /\ Cardinality(requires) = 3
    /\ options.shared = FALSE
    /\ settings.os = "Linux"

---------------------------------------------------------------------------
(* C7 *)

\* C7: in requirements() the remote registration command is issued before
\* any dependency is declared (every requires entry of the call log follows
\* a call entry or another requires entry), and its exit status is not
\* checked: after a non-zero status the step has not failed and all three
\* dependencies are declared; a non-zero status of the clone command does
\* fail source().
C7_RegistrationUnchecked ==
    /\ \A i \in 1..Len(log) :
         log[i].op = "requires" =>
            i > 1 /\ log[i-1].op \in {"call", "requires"}
    /\ NonZero(callResult.exit) =>
         /\ failedStep # "requirements"
         /\ reqRuns >= 1
         /\ {GlfwRef, GlmRef, VulkanRef} \subseteq requires
    /\ NonZero(sourceExit) => failedStep = "source"

C7_Witness ==
    /\ NonZero(callResult.exit)
    /\ pc = "source"
    /\ reqRuns = 1
    /\ Cardinality(requires) = 3

---------------------------------------------------------------------------
(* C8 *)

---------------------------------------------------------------------------
(* C3 *)

\* the position of a call-log entry in the order of the steps
StepRank(op) ==
    CASE op \in {"call", "requires"} -> 1
      [] op = "run" -> 2
      [] op = "msbuild" -> 3
      [] op = "copy" -> 4
      [] op = "libs" -> 5

\* C3: the steps run one after another in the order declare dependencies,
\* clone, build, copy artifacts: the call log never holds a call of a later
\* step before a call of an earlier one (no entry is followed by an entry
\* of an earlier step), the clone is not started before
\* requirements() has completed, the build is not started unless the clone
\* ended with status 0, and package() is not started unless the build ended
\* with status 0.
C3_Sequential ==
    /\ \A i \in 1..Len(log) :
         i > 1 => StepRank(log[i-1].op) <= StepRank(log[i].op)
    /\ attempts.source > 0 => reqRuns >= 1
    /\ attempts.build > 0 => Zero(sourceExit)
    /\ attempts.package > 0 => Zero(buildExit)
    /\ libs # <<>> => attempts.package > 0

C3_Witness ==
    /\ pc = "done"
    /\ attempts = [source |-> 1, build |-> 1, package |-> 1]
    /\ Zero(sourceExit) /\ Zero(buildExit)

---------------------------------------------------------------------------
(* C6 *)

\* C6: the clone, build and package steps are each started at most once,
\* and once a step has failed no later step is started and the package
\* output tree stays empty (no link target is exported either).
C6_NoRetryNoRecovery ==
    /\ attempts.source <= 1 /\ attempts.build <= 1 /\ attempts.package <= 1
    /\ (failedStep = "requirements" \/ callResult.why = "oserror") =>
         attempts = [source |-> 0, build |-> 0, package |-> 0]
    /\ (failedStep = "source" \/ NonZero(sourceExit)) =>
         attempts.build = 0 /\ attempts.package = 0
    /\ (failedStep = "build" \/ NonZero(buildExit)) => attempts.package = 0
    /\ (failedStep # "none" \/ NonZero(sourceExit) \/ NonZero(buildExit)) =>
         pc = "failed" /\ package = {} /\ copied = {} /\ libs = <<>>

C6_Witness ==
    /\ failedStep = "build"
    /\ NonZero(buildExit)
    /\ files # {}
    /\ attempts = [source |-> 1, build |-> 1, package |-> 0]

---------------------------------------------------------------------------
(* C2 *)

\* C2 as stated: a failed clone, a failed build, and a copy rule of
\* package() whose glob selects no file each leave the invocation failed.
C2_Original ==
    /\ NonZero(sourceExit) => pc = "failed"
    /\ NonZero(buildExit) => pc = "failed"
    /\ (attempts.package > 0
        /\ \E i \in 1..Len(CopyRules) : Matched(files, CopyRules[i]) = {})
       => pc = "failed"

\* C2 amended: a failed clone and a failed build leave the invocation
\* failed at that step; package() never fails: every file it copies is a
\* file of the build tree that the glob of its rule selects, so a copy rule
\* whose glob selects no file copies nothing, and the invocation goes on to
\* finish with a package that lacks those files.
C2_FailurePropagates ==
    /\ NonZero(sourceExit) => pc = "failed" /\ failedStep = "source"
    /\ NonZero(buildExit) => pc = "failed" /\ failedStep = "build"
    /\ attempts.package > 0 =>
         /\ Packaged
         /\ failedStep = "none"
         /\ \A c \in copied :
              /\ c.from \in files
              /\ IsUnder(c.from, CopyRules[c.rule].src)
              /\ FnMatch(RelPath(c.from, CopyRules[c.rule].src),
                         CopyRules[c.rule].pattern)

C2_Witness ==
    /\ pc = "done"
    /\ package # {}
    /\ \E i \in 1..Len(CopyRules) : Matched(files, CopyRules[i]) = {}

---------------------------------------------------------------------------
(* C4 *)

\* where the layout described by C4 puts build-tree file f: the set of
\* its destinations (empty when none of the six rules applies to it)
LayoutOf(f) ==
    (IF StartsWith(f, HELLO \o SEP) /\ EndsWith(f, DOT_H)
     THEN {INCLUDE \o SEP \o SubSeq(f, Len(HELLO) + 2, Len(f))} ELSE {})
    \cup (IF EndsWith(f, HELLO \o DOT_LIB) \/ EndsWith(f, DOT_SO)
             \/ EndsWith(f, DOT_DYLIB) \/ EndsWith(f, DOT_A)
          THEN {LIB \o SEP \o Basename(f)} ELSE {})
    \cup (IF EndsWith(f, DOT_DLL) THEN {BIN \o SEP \o Basename(f)} ELSE {})

\* C4: after package() every file of the package output tree lies under
\* include, lib or bin and is there by extension: the tree is exactly the
\* *.h files of the sub-directory hello under include, the files ending in
\* hello.lib, .so, .dylib and .a under lib, and the files ending in .dll
\* under bin; a file of the build tree to which none of the six rules
\* applies is not copied.
C4_PackageLayout ==
    /\ Packaged =>
         /\ \A p \in package : TopDir(p) \in {INCLUDE, LIB, BIN}
         /\ package = UNION {LayoutOf(f) : f \in files}
         /\ \A c \in copied : c.from \in files /\ c.to \in LayoutOf(c.from)
    /\ ~Packaged => package = {}

C4_Witness ==
    /\ pc = "done"
    /\ \E p, q \in package : TopDir(p) = INCLUDE /\ TopDir(q) = BIN
    /\ \E f \in files : LayoutOf(f) = {}

---------------------------------------------------------------------------
(* C9 *)

\* the number of separators in a path
RECURSIVE Depth(_)
Depth(p) ==
    IF p = <<>> THEN 0
    ELSE (IF Head(p) = "/" THEN 1 ELSE 0) + Depth(Tail(p))

\* C9: the files copied by the five library and binary rules land directly
\* in lib or bin under their base name (so files of one base name from
\* different directories share a destination), while a header keeps its
\* path relative to the directory hello beneath include (so different
\* headers never share a destination).
C9_FlattenButHeaders ==
    /\ \A c \in copied :
         c.rule # 1 =>
            /\ Depth(c.to) = 1
            /\ TopDir(c.to) \in {LIB, BIN}
            /\ Basename(c.to) = Basename(c.from)
    /\ \A c, d \in copied :
         (c.rule # 1 /\ d.rule = c.rule /\ Basename(c.from) = Basename(d.from))
            => c.to = d.to
    /\ \A c \in copied :
         c.rule = 1 =>
            /\ HELLO \o SEP \o SubSeq(c.to, Len(INCLUDE) + 2, Len(c.to)) = c.from
            /\ TopDir(c.to) = INCLUDE
            /\ Depth(c.to) = Depth(c.from)
    /\ \A c, d \in copied :
         (c.rule = 1 /\ d.rule = 1 /\ c.to = d.to) => c.from = d.from

C9_Witness ==
    /\ Packaged
    /\ \E c, d \in copied : c.rule # 1 /\ c.from # d.from /\ c.to = d.to
    /\ \E c \in copied : c.rule = 1 /\ Depth(c.to) = 2

---------------------------------------------------------------------------
(* C5 *)

\* C5 as stated: package_info() exports the single link target hello, and
\* every library packaged by the static-library rule is the library of
\* that name, hello.lib.
C5_Original ==
    pc = "done" =>
       /\ libs = << HELLO >>
       /\ \A c \in copied :
            c.rule = 2 => Basename(c.to) = libs[1] \o DOT_LIB

\* C5 amended: package_info() exports the single link target hello,
\* whatever the settings and options; every file packaged by the
\* static-library rule lies directly in lib and has a name that ends in
\* hello.lib (hello.lib itself or a longer name such as xhello.lib); and a
\* build output named hello.lib is always packaged as lib/hello.lib.
C5_LinkTarget ==
    /\ pc = "done" =>
         /\ libs = << HELLO >>
         /\ \A c \in copied :
              c.rule = 2 =>
                 /\ EndsWith(Basename(c.to), libs[1] \o DOT_LIB)
                 /\ c.to = LIB \o SEP \o Basename(c.from)
         /\ \A f \in files :
              Basename(f) = libs[1] \o DOT_LIB =>
                 LIB \o SEP \o libs[1] \o DOT_LIB \in package
    /\ pc # "done" => libs = <<>>

C5_Witness ==
    /\ pc = "done"
    /\ LIB \o SEP \o HELLO \o DOT_LIB \in package
    /\ LIB \o SEP \o <<"x">> \o HELLO \o DOT_LIB \in package

---------------------------------------------------------------------------
(* C10 *)

\* the calls of one run of requirements()
ExpectedRequirementsCalls ==
    << [op |-> "call", arg |-> "conan remote add --force bincrafters https://api.bintray.com/conan/bincrafters/public-conan"],
       [op |-> "requires", arg |-> GlfwRef],
       [op |-> "requires", arg |-> GlmRef],
       [op |-> "requires", arg |-> VulkanRef] >>

\* the calls of source(), build(), package() and package_info()
ExpectedPipelineCalls ==
    << [op |-> "run", arg |-> "git clone https://github.com/wagk/shiny.git ."],
       [op |-> "msbuild", arg |-> "shiny.sln"],
       [op |-> "copy", arg |-> [pattern |-> STAR \o DOT_H, dst |-> INCLUDE,
                                src |-> HELLO, keep_path |-> TRUE]],
       [op |-> "copy", arg |-> [pattern |-> STAR \o HELLO \o DOT_LIB, dst |-> LIB,
                                src |-> <<>>, keep_path |-> FALSE]],
       [op |-> "copy", arg |-> [pattern |-> STAR \o DOT_DLL, dst |-> BIN,
                                src |-> <<>>, keep_path |-> FALSE]],
       [op |-> "copy", arg |-> [pattern |-> STAR \o DOT_SO, dst |-> LIB,
                                src |-> <<>>, keep_path |-> FALSE]],
       [op |-> "copy", arg |-> [pattern |-> STAR \o DOT_DYLIB, dst |-> LIB,
                                src |-> <<>>, keep_path |-> FALSE]],
       [op |-> "copy", arg |-> [pattern |-> STAR \o DOT_A, dst |-> LIB,
                                src |-> <<>>, keep_path |-> FALSE]],
       [op |-> "libs", arg |-> << HELLO >>] >>

RECURSIVE Repeat(_, _)
Repeat(seq, n) == IF n = 0 THEN <<>> ELSE seq \o Repeat(seq, n - 1)

\* the call log of a whole invocation in which requirements() completed n times
ExpectedCalls(n) ==
    Repeat(ExpectedRequirementsCalls, n)
    \o (IF failedStep = "requirements"
        THEN SubSeq(ExpectedRequirementsCalls, 1, 1)
        ELSE ExpectedPipelineCalls)

\* C10: the value of the shared option changes nothing: for both values the
\* calls the recipe makes (the registration command, the three dependency
\* declarations, the clone command, the build of shiny.sln, the six copy
\* rules and the exported link target) are the same fixed sequence, of
\* which the call log is a prefix, and the whole of it once the invocation
\* is done.
C10_SharedHasNoEffect ==
    LET want == ExpectedCalls(reqRuns)
    IN  /\ Len(log) <= Len(want)
        /\ \A i \in 1..Len(log) :
             log[i].op = want[i].op /\ log[i].arg = want[i].arg
        /\ pc = "done" => Len(log) = Len(want)

C10_Witness ==
    /\ pc = "done"
    /\ options.shared = TRUE
    /\ package # {}

=============================================================================
